---- MODULE Spec2Model ----
(***************************************************************************)
(* Gesture-Fireworks: the simulation core of components/FireworkScene.tsx  *)
(* (particle pool, projectiles, envelopes, coins, gesture debounce, spawn  *)
(* scheduler, score counters) and the session state machine of App.tsx.    *)
(*                                                                         *)
(* Numbers.  Floats are fixed-point integers: life, decay, velocity and    *)
(* position are in thousandths, sizes in tenths, times in milliseconds.    *)
(* Only the vertical (y) component of positions and velocities is kept:    *)
(* it is the only one the code ever tests.  Math.random() draws are        *)
(* nondeterministic choices from small sample sets.                        *)
(***************************************************************************)
EXTENDS Integers, Sequences, FiniteSets, TLC

VARIABLES
    \* ---- FireworkScene refs -------------------------------------------
    particles,          \* particlesData + particlePositions/Colors/Sizes
    projectiles,        \* projectiles.current
    envelopes,          \* envelopes.current
    coins,              \* coins.current
    nextSpawnTime,      \* nextSpawnTime.current
    lastTime,           \* lastTime: the timestamp of the last frame (ms)
    gameStats,          \* gameState.current : GameStats
    statsDirty,         \* statsDirty.current
    pendingGesture,     \* pendingGesture.current
    stableGesture,      \* stableGesture.current
    gestureFrameCount,  \* gestureFrameCount.current
    handDataRef,        \* handDataRef.current
    isGameActiveRef,    \* isGameActiveRef.current
    rawRun,             \* history: how many loop iterations in a row, up to
                        \* the last one, read the same raw gesture
    callOrder,          \* history: the trigger functions the last loop
                        \* iteration called, in the order of the calls
    fired,              \* history: what the last loop iteration called (the
                        \* stats callback, the functions of its triggers)
    \* ---- App state ----------------------------------------------------
    gameState,          \* 'MENU' | 'PLAYING' | 'RESULT'
    timeLeft,
    restartCooldown,
    stats,              \* the UI copy of GameStats
    handData,           \* HandData | null
    timerOn,            \* the Timer effect's interval is installed
    cooldownOn,         \* the Restart Cooldown effect's interval is installed
    pendingEffects,     \* effects of the last commit that have not run yet
    cooldownTicks,      \* history: callbacks of the cooldown interval since
                        \* the last entry into RESULT
    \* ---- VisionService --------------------------------------------------
    lastWristPos,       \* this.lastWristPos
    detected,           \* the value the last call of detect returned
    \* ---- history ---------------------------------------------------------
    published           \* history: the snapshots written to handDataRef
                        \* since the loop iteration before the last write
                        \* (the newest ones), and whether an iteration ran
                        \* after the last write

sceneVars == <<particles, projectiles, envelopes, coins, nextSpawnTime,
               lastTime, gameStats, statsDirty, pendingGesture, stableGesture,
               gestureFrameCount, handDataRef, isGameActiveRef, rawRun,
               fired, callOrder>>
appVars == <<gameState, timeLeft, restartCooldown, stats, handData,
             timerOn, cooldownOn, pendingEffects, cooldownTicks>>
visionVars == <<lastWristPos, detected>>
vars == <<sceneVars, appVars, visionVars, published>>

(***************************************************************************)
(* Bounds of the model.                                                    *)
(***************************************************************************)
\* Pool capacity of the model (the code's pool has 4000 slots).
MAX_PARTICLES == 2
\* Burst sizes (60 per explosion, 20/40 per envelope) are divided by this.
BurstDiv == 20
\* The per-frame physics steps are multiplied by this, so that lifetimes and
\* flights span a few loop iterations instead of dozens.
TimeScale == 25
\* Cap of the exploded counter (guards the explosion actions).
MaxExploded == 12
\* Cap of the coins counter (guards the conversion action).
MaxCoins == 40
\* Cap of the exploded counter in the specification of the whole game.
MaxSessionExploded == 3
\* Coins in flight at once, in the specification of the counters.
MaxFlyingCoins == 6
\* Projectiles in flight at once, in the specification of the projectiles.
MaxProjectiles == 3
\* The loop is followed up to this timestamp (ms).
MaxTime == 5600
\* The time (ms) the specification of the refs runs the loop for.
MaxRefTime == 1600
\* Snapshots the history of the writes to handDataRef keeps.
MaxPublished == 2

(***************************************************************************)
(* Program constants.                                                      *)
(***************************************************************************)
ExplosionParticles == 60
EnvelopeParticles == 20
GoldenParticles == 40
ChargeCost == 5
MaxBatch == 4
Gravity == 5
ParkY == -1000
CullY == -20
EnvelopeY == 10
GestureThreshold == 5
CountdownStart == 30
CooldownStart == 3

Min(S) == CHOOSE x \in S : \A y \in S : x <= y
Max2(a, b) == IF a >= b THEN a ELSE b

GOLD_COLOR == "GOLD_COLOR"
ENVELOPE_RED == "ENVELOPE_RED"

(***************************************************************************)
(* Particle pool.                                                          *)
(***************************************************************************)
Slots == 0 .. (MAX_PARTICLES - 1)

\* One pool slot as the init loop leaves it.
InitParticle ==
    [active |-> FALSE, life |-> 0, velocity |-> 0, decay |-> 0,
     initialSize |-> 0, position |-> ParkY * 1000, colour |-> "none",
     size |-> 0]

InitParticles == [i \in Slots |-> InitParticle]

ActiveCount(ps) == Cardinality({i \in Slots : ps[i].active})
Saturated(ps) == \A i \in Slots : ps[i].active

\* Variant of the scan that stops at the last slot instead of wrapping.
FoundIndexNoWrap(ps, start) ==
    LET hits == {i \in start .. (MAX_PARTICLES - 1) : ~ps[i].active}
    IN  IF hits = {} THEN -1 ELSE Min(hits)

\* The wrapping linear scan of spawnParticle: the first inactive slot at or
\* after start, or -1.
FoundIndex(ps, start) ==
    LET hits == {i \in 0 .. (MAX_PARTICLES - 1) :
                    ~ps[(start + i) % MAX_PARTICLES].active}
    IN  IF hits = {} THEN -1 ELSE (start + Min(hits)) % MAX_PARTICLES

\* Variant of spawnParticle that recycles the slot at start when the scan
\* finds no inactive slot.
SpawnParticleRecycling(ps, start, d) ==
    LET foundIndex == FoundIndex(ps, start)
        idx == IF foundIndex # -1 THEN foundIndex ELSE start
    IN  [ps EXCEPT ![idx] =
            [active |-> TRUE, life |-> d.life, velocity |-> d.vel,
             decay |-> d.decay, initialSize |-> d.size,
             position |-> d.pos, colour |-> d.colour, size |-> d.size]]

\* spawnParticle(pos, colorHex, vel, life, decay, size) with
\* start = floor(random * MAX_PARTICLES); d carries the arguments.
SpawnParticle(ps, start, d) ==
    LET foundIndex == FoundIndex(ps, start)
    IN  IF foundIndex # -1
        THEN [ps EXCEPT ![foundIndex] =
                 [active |-> TRUE, life |-> d.life, velocity |-> d.vel,
                  decay |-> d.decay, initialSize |-> d.size,
                  position |-> d.pos, colour |-> d.colour, size |-> d.size]]
        ELSE ps

\* A run of spawnParticle calls, one per element of ds, each with its own
\* start index.
RECURSIVE SpawnAll(_, _)
SpawnAll(ps, ds) ==
    IF ds = <<>> THEN ps
    ELSE SpawnAll(SpawnParticle(ps, Head(ds).start, Head(ds)), Tail(ds))

\* Variant of the pass over one active slot that does not lower its life.
UpdateParticleAgeless(p, blink) ==
    LET vel  == p.velocity - Gravity * TimeScale
        pos  == p.position + vel * TimeScale
        sz   == Max2(0, (p.life * blink * p.initialSize) \div 10000)
    IN  IF p.life <= 0 \/ pos < CullY * 1000
        THEN [p EXCEPT !.velocity = vel, !.active = FALSE,
                       !.position = ParkY * 1000, !.size = 0]
        ELSE [p EXCEPT !.velocity = vel, !.position = pos, !.size = sz]

\* Variant of the pass over one active slot that deactivates a dead particle
\* and leaves it where it is.
UpdateParticleInPlace(p, blink) ==
    LET vel  == p.velocity - Gravity * TimeScale
        pos  == p.position + vel * TimeScale
        life == p.life - p.decay * TimeScale
        sz   == Max2(0, (life * blink * p.initialSize) \div 10000)
    IN  IF life <= 0 \/ pos < CullY * 1000
        THEN [p EXCEPT !.velocity = vel, !.life = life, !.active = FALSE,
                       !.position = pos, !.size = 0]
        ELSE [p EXCEPT !.velocity = vel, !.life = life, !.position = pos,
                       !.size = sz]

\* The loop's pass over one active slot; blink is 10 * (0.6 + 0.4 sin(..)).
UpdateParticle(p, blink) ==
    LET vel  == p.velocity - Gravity * TimeScale
        pos  == p.position + vel * TimeScale
        life == p.life - p.decay * TimeScale
        sz   == Max2(0, (life * blink * p.initialSize) \div 10000)
    IN  IF life <= 0 \/ pos < CullY * 1000
        THEN [p EXCEPT !.velocity = vel, !.life = life, !.active = FALSE,
                       !.position = ParkY * 1000, !.size = 0]
        ELSE [p EXCEPT !.velocity = vel, !.life = life, !.position = pos,
                       !.size = sz]

UpdateParticles(ps, blink) ==
    [i \in Slots |-> IF ps[i].active THEN UpdateParticle(ps[i], blink) ELSE ps[i]]

(***************************************************************************)
(* Random draws: the sample sets Math.random() is drawn from.              *)
(***************************************************************************)
\* All sequences of length n over S (one draw per call of a loop).
Draws(n, S) == [1 .. n -> S]

\* createExplosion: vertical velocity speed*sin(phi)*sin(theta) in
\* (-0.5, 0.5), life 1.0 + r*0.5, decay 0.01 + r*0.01, size (0.8 + r*0.8)*3.
ExplosionSamples ==
    {[vel |-> 500, life |-> 1000, decay |-> 20, size |-> 24],
     [vel |-> -500, life |-> 1500, decay |-> 10, size |-> 48]}
\* The sample createExplosion draws from when it is called as an operation.
ExplosionSample == [vel |-> 500, life |-> 1000, decay |-> 20, size |-> 24]
ExplosionDraws == {[start |-> s, k |-> ExplosionSample] : s \in Slots}

\* spawnEnvelopes3D burst: vertical velocity sin(angle) * (0.1 + r*0.2).
EnvelopeVels == {200}
EnvelopeDraws == {[start |-> s, vel |-> v] : s \in Slots, v \in EnvelopeVels}

\* spawnCoins: floor(random * 8), the base count being that plus 3; the two
\* ends of its range 0..7.
CoinRolls == {0, 7}

\* The loop's blink factor 0.6 + 0.4 sin(sec*15 + i*0.1), times 10.
BlinkSet == {2, 10}

\* Heights (thousandths) a projectile can be at when it is detonated or
\* leaves a trail particle, for the operation-level specification.
Heights == {-5000, 20000}

(***************************************************************************)
(* The scene as one record, for the operations that are composed.          *)
(***************************************************************************)
Scene ==
    [particles |-> particles, projectiles |-> projectiles,
     envelopes |-> envelopes, coins |-> coins,
     gameStats |-> gameStats, statsDirty |-> statsDirty]

ZeroStats == [exploded |-> 0, consumed |-> 0, coins |-> 0]

\* charges = floor((exploded - consumed) / 5)
Charges(g) == (g.exploded - g.consumed) \div ChargeCost

\* Variant of createExplosion that counts the explosion only when the pool has
\* a free slot for its particles.
CreateExplosionIfRoom(s, position, baseColor, ds) ==
    LET calls == [i \in 1 .. Len(ds) |->
                    [start |-> ds[i].start, pos |-> position,
                     colour |-> baseColor, vel |-> ds[i].k.vel,
                     life |-> ds[i].k.life, decay |-> ds[i].k.decay,
                     size |-> ds[i].k.size]]
    IN  IF Saturated(s.particles) THEN s
        ELSE [s EXCEPT !.gameStats.exploded = @ + 1,
                       !.statsDirty = TRUE,
                       !.particles = SpawnAll(@, calls)]

\* createExplosion(position, baseColor); ds are the draws of its loop.
CreateExplosion(s, position, baseColor, ds) ==
    LET calls == [i \in 1 .. Len(ds) |->
                    [start |-> ds[i].start, pos |-> position,
                     colour |-> baseColor, vel |-> ds[i].k.vel,
                     life |-> ds[i].k.life, decay |-> ds[i].k.decay,
                     size |-> ds[i].k.size]]
    IN  [s EXCEPT !.gameStats.exploded = @ + 1,
                  !.statsDirty = TRUE,
                  !.particles = SpawnAll(@, calls)]

\* Number of burst particles of one envelope.
BurstCount(isGolden) ==
    IF isGolden THEN GoldenParticles \div BurstDiv
    ELSE EnvelopeParticles \div BurstDiv

\* Total number of spawnParticle calls of a batch.
BatchBurst(count, goldenIndex) ==
    count * BurstCount(FALSE)
    + (IF goldenIndex >= 0 THEN BurstCount(TRUE) - BurstCount(FALSE) ELSE 0)

\* The envelope (0-based) each spawnParticle call of a batch belongs to.
RECURSIVE BurstOwners(_, _, _)
BurstOwners(i, count, goldenIndex) ==
    IF i >= count THEN <<>>
    ELSE [j \in 1 .. BurstCount(i = goldenIndex) |-> i]
         \o BurstOwners(i + 1, count, goldenIndex)

\* Variant of spawnEnvelopes3D without the early return on a live batch: the
\* new envelopes are stacked on the live ones.
SpawnEnvelopes3DStacking(s, count, goldenIndex, ds) ==
    LET startX == 0 - ((count - 1) * 350) \div 2
    IN  [s EXCEPT
           !.envelopes = @ \o [i \in 1 .. count |->
                                 [x |-> startX + (i - 1) * 350,
                                  isGolden |-> (i - 1 = goldenIndex)]]]

\* Variant of spawnEnvelopes3D that also gilds the envelope after the golden
\* one.
SpawnEnvelopes3DGildingTwo(s, count, goldenIndex, ds) ==
    IF Len(s.envelopes) > 0 THEN s
    ELSE
      LET startX == 0 - ((count - 1) * 350) \div 2
          owners == BurstOwners(0, count, goldenIndex)
          calls  == [j \in 1 .. Len(owners) |->
                      [start |-> ds[j].start, pos |-> EnvelopeY * 1000,
                       colour |-> IF owners[j] = goldenIndex
                                  THEN GOLD_COLOR ELSE ENVELOPE_RED,
                       vel |-> ds[j].vel, life |-> 1500, decay |-> 30,
                       size |-> IF owners[j] = goldenIndex THEN 45 ELSE 30]]
      IN  [s EXCEPT
             !.envelopes = [i \in 1 .. count |->
                              [x |-> startX + (i - 1) * 350,
                               isGolden |-> (goldenIndex >= 0
                                             /\ i - 1 >= goldenIndex
                                             /\ i - 1 <= goldenIndex + 1)]],
             !.particles = SpawnAll(@, calls)]

\* spawnEnvelopes3D with count = floor(random*4)+1 and goldenIndex drawn.
SpawnEnvelopes3D(s, count, goldenIndex, ds) ==
    IF Len(s.envelopes) > 0 THEN s
    ELSE
      LET startX == 0 - ((count - 1) * 350) \div 2
          owners == BurstOwners(0, count, goldenIndex)
          calls  == [j \in 1 .. Len(owners) |->
                      [start |-> ds[j].start, pos |-> EnvelopeY * 1000,
                       colour |-> IF owners[j] = goldenIndex
                                  THEN GOLD_COLOR ELSE ENVELOPE_RED,
                       vel |-> ds[j].vel, life |-> 1500, decay |-> 30,
                       size |-> IF owners[j] = goldenIndex THEN 45 ELSE 30]]
      IN  [s EXCEPT
             !.envelopes = [i \in 1 .. count |->
                              [x |-> startX + (i - 1) * 350,
                               isGolden |-> (i - 1 = goldenIndex)]],
             !.particles = SpawnAll(@, calls)]

\* Variant of trySpawnEnvelopes that debits before it tests the charges.
TrySpawnEnvelopesDebitFirst(s, count, goldenIndex, ds) ==
    LET s1 == [s EXCEPT !.gameStats.consumed = @ + ChargeCost,
                        !.statsDirty = TRUE]
    IN  IF Charges(s.gameStats) < 1 THEN s1
        ELSE SpawnEnvelopes3D(s1, count, goldenIndex, ds)

\* Variant of trySpawnEnvelopes that marks the stats dirty before it tests the
\* charges.
TrySpawnEnvelopesMarking(s, count, goldenIndex, ds) ==
    IF Charges(s.gameStats) < 1 THEN [s EXCEPT !.statsDirty = TRUE]
    ELSE SpawnEnvelopes3D(
             [s EXCEPT !.gameStats.consumed = @ + ChargeCost,
                       !.statsDirty = TRUE],
             count, goldenIndex, ds)

\* Variant of trySpawnEnvelopes that spends every available charge at once.
TrySpawnEnvelopesSpendAll(s, count, goldenIndex, ds) ==
    IF Charges(s.gameStats) < 1 THEN s
    ELSE SpawnEnvelopes3D(
             [s EXCEPT !.gameStats.consumed =
                           @ + ChargeCost * Charges(s.gameStats),
                       !.statsDirty = TRUE],
             count, goldenIndex, ds)

\* trySpawnEnvelopes
TrySpawnEnvelopes(s, count, goldenIndex, ds) ==
    IF Charges(s.gameStats) < 1 THEN s
    ELSE SpawnEnvelopes3D(
             [s EXCEPT !.gameStats.consumed = @ + ChargeCost,
                       !.statsDirty = TRUE],
             count, goldenIndex, ds)

\* Number of coins spawnCoins makes from the roll floor(random * 8).
CoinCount(roll, isGolden) == IF isGolden THEN (roll + 3) * 2 ELSE roll + 3
\* Variant of coinValue that ignores the golden flag.
CoinValueFlat(isGolden) == 1
\* const coinValue = isGolden ? 2 : 1
CoinValue(isGolden) == IF isGolden THEN 2 ELSE 1

\* spawnCoins(position, isGolden); x is the x of position (hundredths), roll
\* is floor(random * 8); the jitter of each coin is drawn as 0 and its
\* upward velocity random * 0.4 as 0.
SpawnCoins(s, x, isGolden, roll) ==
    LET count == CoinCount(roll, isGolden)
    IN  [s EXCEPT
           !.gameStats.coins = @ + count * CoinValue(isGolden),
           !.statsDirty = TRUE,
           !.coins = @ \o [i \in 1 .. count |->
                             [x |-> x, position |-> EnvelopeY * 1000,
                              velocity |-> 0,
                              colour |-> IF isGolden THEN GOLD_COLOR
                                         ELSE "SILVER_COLOR"]]]

RECURSIVE SpawnCoinsAll(_, _, _)
SpawnCoinsAll(s, es, rolls) ==
    IF es = <<>> THEN s
    ELSE SpawnCoinsAll(SpawnCoins(s, Head(es).x, Head(es).isGolden, Head(rolls)),
                       Tail(es), Tail(rolls))

\* Variant of explodeEnvelopes that converts the first envelope only.
ExplodeEnvelopesFirst(s, rolls) ==
    IF Len(s.envelopes) = 0 THEN s
    ELSE [SpawnCoinsAll(s, <<Head(s.envelopes)>>, <<Head(rolls)>>)
            EXCEPT !.envelopes = Tail(s.envelopes)]

\* explodeEnvelopes; rolls has one roll per live envelope.
ExplodeEnvelopes(s, rolls) ==
    IF Len(s.envelopes) = 0 THEN s
    ELSE [SpawnCoinsAll(s, s.envelopes, rolls) EXCEPT !.envelopes = <<>>]

\* Total the coins counter gains from a conversion with these rolls.
RECURSIVE CoinGain(_, _)
CoinGain(es, rolls) ==
    IF es = <<>> THEN 0
    ELSE CoinCount(Head(rolls), Head(es).isGolden) * CoinValue(Head(es).isGolden)
         + CoinGain(Tail(es), Tail(rolls))

\* The loop's pass over the coins (scaled by TimeScale).
UpdateCoin(c) ==
    [c EXCEPT !.position = @ + c.velocity * TimeScale,
              !.velocity = @ - 40 * TimeScale]

RECURSIVE UpdateCoins(_)
UpdateCoins(cs) ==
    IF cs = <<>> THEN <<>>
    ELSE LET c == UpdateCoin(Head(cs))
         IN  (IF c.position < CullY * 1000 THEN <<>> ELSE <<c>>)
             \o UpdateCoins(Tail(cs))

(***************************************************************************)
(* Initial state: after the mount of App and FireworkScene.                *)
(***************************************************************************)
Null == [hand |-> FALSE, gesture |-> "None", velocity |-> 0]

\* this.lastWristPos = null
NoWrist == [seen |-> FALSE, x |-> 0]
\* No snapshot written to handDataRef yet: the loop reads its initial value.
NoLog == [snaps |-> <<>>, read |-> TRUE]

Init ==
    /\ particles = InitParticles
    /\ projectiles = <<>>
    /\ envelopes = <<>>
    /\ coins = <<>>
    /\ nextSpawnTime = 0
    /\ lastTime = 0
    /\ gameStats = ZeroStats
    /\ statsDirty = FALSE
    /\ pendingGesture = "None"
    /\ stableGesture = "None"
    /\ gestureFrameCount = 0
    /\ handDataRef = Null
    /\ isGameActiveRef = FALSE
    /\ rawRun = 0
    /\ fired = {}
    /\ callOrder = <<>>
    /\ gameState = "MENU"
    /\ timeLeft = CountdownStart
    /\ restartCooldown = 0
    /\ stats = ZeroStats
    /\ handData = Null
    /\ timerOn = FALSE
    /\ cooldownOn = FALSE
    /\ pendingEffects = {}
    /\ cooldownTicks = 0
    /\ lastWristPos = NoWrist
    /\ detected = Null
    /\ published = NoLog

\* The variables an operation of the scene can write, taken from a record.
SetScene(s) ==
    /\ particles' = s.particles
    /\ projectiles' = s.projectiles
    /\ envelopes' = s.envelopes
    /\ coins' = s.coins
    /\ gameStats' = s.gameStats
    /\ statsDirty' = s.statsDirty

restVars == <<nextSpawnTime, lastTime, pendingGesture, stableGesture,
              gestureFrameCount, handDataRef, rawRun, fired,
              callOrder>>

(***************************************************************************)
(* Operation-level specifications: the operations of FireworkScene and the *)
(* passes of its loop as actions, called in any order.  They               *)
(* over-approximate the orders in which the loop calls them.               *)
(***************************************************************************)
\* The arguments spawnParticle is called with: by the projectile trail, by
\* createExplosion and by the envelope burst.
ParticleArgs ==
    {[pos |-> h, colour |-> "palette", vel |-> -100, life |-> 800,
      decay |-> 30, size |-> 40] : h \in Heights}
    \cup {[pos |-> h, colour |-> "palette", vel |-> k.vel, life |-> k.life,
           decay |-> k.decay, size |-> k.size] :
             h \in Heights, k \in ExplosionSamples}
    \cup {[pos |-> EnvelopeY * 1000, colour |-> ENVELOPE_RED, vel |-> v,
           life |-> 1500, decay |-> 30, size |-> 30] : v \in EnvelopeVels}

\* spawnParticle called once.
OpSpawnParticle ==
    \E start \in Slots, d \in ParticleArgs :
        /\ particles' = SpawnParticle(particles, start, d)
        /\ UNCHANGED <<projectiles, envelopes, coins, gameStats, statsDirty,
                       restVars, isGameActiveRef, appVars, visionVars, published>>

\* The loop's pass over the particle pool.
OpUpdateParticles ==
    \E blink \in BlinkSet :
        /\ particles' = UpdateParticles(particles, blink)
        /\ UNCHANGED <<projectiles, envelopes, coins, gameStats, statsDirty,
                       restVars, isGameActiveRef, appVars, visionVars, published>>

NextPool ==
    \/ OpSpawnParticle
    \/ OpUpdateParticles

SpecPool == Init /\ [][NextPool]_vars

\* The animation loop runs its pass over the pool in every frame.
SpecPoolLive == SpecPool /\ WF_vars(OpUpdateParticles)

\* createExplosion called once.
OpCreateExplosion ==
    /\ gameStats.exploded < MaxExploded
    /\ \E h \in {20000},
          ds \in Draws(ExplosionParticles \div BurstDiv, ExplosionDraws) :
          SetScene(CreateExplosion(Scene, h, "palette", ds))
    /\ UNCHANGED <<restVars, isGameActiveRef, appVars, visionVars, published>>

\* trySpawnEnvelopes called once.
OpTrySpawnEnvelopes ==
    /\ \E count \in 1 .. MaxBatch :
         \E goldenIndex \in -1 .. (count - 1) :
           \E ds \in Draws(IF Charges(gameStats) < 1 \/ Len(envelopes) > 0
                           THEN 0 ELSE BatchBurst(count, goldenIndex),
                           EnvelopeDraws) :
             SetScene(TrySpawnEnvelopes(Scene, count, goldenIndex, ds))
    /\ UNCHANGED <<restVars, isGameActiveRef, appVars, visionVars, published>>

\* explodeEnvelopes called once.
OpExplodeEnvelopes ==
    /\ \E rolls \in Draws(Len(envelopes), CoinRolls) :
         /\ gameStats.coins + CoinGain(envelopes, rolls) <= MaxCoins
         /\ SetScene(ExplodeEnvelopes(Scene, rolls))
    /\ UNCHANGED <<restVars, isGameActiveRef, appVars, visionVars, published>>

\* The loop's pass over the coins.
OpUpdateCoins ==
    /\ coins' = UpdateCoins(coins)
    /\ UNCHANGED <<particles, projectiles, envelopes, gameStats, statsDirty,
                   restVars, isGameActiveRef, appVars, visionVars, published>>

\* The loop's "Report Stats if dirty": the callback is App's setStats.
OpReportStats ==
    /\ statsDirty
    /\ stats' = gameStats
    /\ statsDirty' = FALSE
    /\ UNCHANGED <<particles, projectiles, envelopes, coins, gameStats,
                   restVars, isGameActiveRef, gameState, timeLeft,
                   restartCooldown, handData, timerOn, cooldownOn,
                   pendingEffects, cooldownTicks,
                   visionVars, published>>

\* Variant of the isGameActive effect that clears the counters whenever it runs.
OpGameActiveEffectClearing ==
    \E b \in BOOLEAN :
        /\ b # isGameActiveRef
        /\ isGameActiveRef' = b
        /\ gameStats' = ZeroStats
        /\ UNCHANGED <<particles, projectiles, envelopes, coins, statsDirty,
                       restVars, appVars, visionVars, published>>

\* Variant of the isGameActive effect that also removes the live envelopes
\* when a session starts.
OpGameActiveEffectSweeping ==
    \E b \in BOOLEAN :
        /\ b # isGameActiveRef
        /\ isGameActiveRef' = b
        /\ gameStats' = IF b THEN ZeroStats ELSE gameStats
        /\ envelopes' = IF b THEN <<>> ELSE envelopes
        /\ UNCHANGED <<particles, projectiles, coins, statsDirty,
                       restVars, appVars, visionVars, published>>

\* The isGameActive effect of FireworkScene, run when the prop isGameActive
\* has changed to b.
OpGameActiveEffect ==
    \E b \in BOOLEAN :
        /\ b # isGameActiveRef
        /\ isGameActiveRef' = b
        /\ gameStats' = IF b THEN ZeroStats ELSE gameStats
        /\ UNCHANGED <<particles, projectiles, envelopes, coins, statsDirty,
                       restVars, appVars, visionVars, published>>

NextEconomy ==
    \/ OpCreateExplosion
    \/ OpTrySpawnEnvelopes
    \/ OpReportStats
    \/ OpGameActiveEffect

SpecEconomy == Init /\ [][NextEconomy]_vars

NextCoins ==
    \/ OpCreateExplosion
    \/ OpTrySpawnEnvelopes
    \/ OpExplodeEnvelopes
    \/ OpUpdateCoins

SpecCoins == Init /\ [][NextCoins]_vars

\* The trigger functions as an active game calls them, the loop's pass over the
\* coins, and the isGameActive effect at the start and end of a session.
NextCounters ==
    \/ isGameActiveRef /\ OpCreateExplosion
    \/ isGameActiveRef /\ OpTrySpawnEnvelopes
    \/ isGameActiveRef /\ OpExplodeEnvelopes /\ Len(coins') <= MaxFlyingCoins
    \/ OpUpdateCoins
    \/ OpGameActiveEffect

SpecCounters == Init /\ [][NextCounters]_vars

(***************************************************************************)
(* The animation loop.                                                     *)
(***************************************************************************)
Gestures == {"None", "Closed_Fist", "Open_Palm", "Victory"}

\* The snapshots the sync effect can publish (velocity in tenths).
HandValues ==
    {Null}
    \cup {[hand |-> TRUE, gesture |-> g, velocity |-> 0] :
            g \in {"Open_Palm", "Victory"}}
    \cup {[hand |-> TRUE, gesture |-> "Closed_Fist", velocity |-> v] :
            v \in {0, 50}}

\* const rawGesture = hand ? hand.gesture : Gesture.None
RawGesture(hand) == IF hand.hand THEN hand.gesture ELSE "None"

\* Variant of the debounce that keeps counting when the raw gesture changes.
DebounceNoReset(pending, count, raw) ==
    [pending |-> raw, count |-> count + 1]

\* Gesture Debounce: the new pendingGesture and gestureFrameCount.
Debounce(pending, count, raw) ==
    IF raw = pending
    THEN [pending |-> pending, count |-> count + 1]
    ELSE [pending |-> raw, count |-> 0]

\* Variant of the threshold test that needs one more iteration.
SettledLate(count) == count > GestureThreshold + 1

\* Variant of the threshold test that accepts the threshold itself.
SettledAtThreshold(count) == count >= GestureThreshold

\* gestureFrameCount.current > 5
Settled(count) == count > GestureThreshold

\* Variant of activeGesture that follows the pending gesture at once.
ActiveGestureRaw(stable, d) == d.pending

\* activeGesture, from the debounced state d
ActiveGesture(stable, d) == IF Settled(d.count) THEN d.pending ELSE stable

\* One loop iteration stands for TimeScale frames of 16 ms.
FrameTimes == {16 * TimeScale}
\* baseDelay = random * (2000 - 666) + 666: the two ends of its range.
BaseDelays == {666, 2000}
\* spawnProjectile: velocity (0.8 + random * 0.4) * 0.7 (thousandths).
ProjectileVels == {700}

\* finalDelay of the Spawn Logic
FinalDelay(baseDelay, hand) ==
    IF hand.hand /\ hand.gesture = "Closed_Fist"
    THEN LET v == Max2(hand.velocity, 0)
             t40 == IF v >= 40 THEN 40 ELSE v        \* 40 * t
         IN  (baseDelay * (80 - t40)) \div 80
    ELSE baseDelay

\* spawnProjectile
SpawnProjectile(s, vel) ==
    [s EXCEPT !.projectiles =
        Append(@, [position |-> -10000, velocity |-> vel, colour |-> "palette"])]

\* The frustum test of explodeVisibleProjectiles for a projectile at z = 0,
\* |x| <= 10: the camera is at y = 8, z = 25 with a 60 degree field of view,
\* so |ndc.y| <= 1.05 is |y - 8| <= 1.05 * 25 * tan(30 deg) = 15.155.
IsVisible(y) == y >= 8000 - 15155 /\ y <= 8000 + 15155

VisibleCount(ps) == Cardinality({i \in 1 .. Len(ps) : IsVisible(ps[i].position)})

RemoveAt(seq, i) == SubSeq(seq, 1, i - 1) \o SubSeq(seq, i + 1, Len(seq))

\* explodeVisibleProjectiles: the scan from the last projectile to the first;
\* ds holds the draws of the explosions still to come.
RECURSIVE ExplodeFrom(_, _, _)
ExplodeFrom(s, i, ds) ==
    IF i < 1 THEN s
    ELSE LET p == s.projectiles[i]
             n == ExplosionParticles \div BurstDiv
         IN  IF IsVisible(p.position)
             THEN ExplodeFrom(
                    [CreateExplosion(s, p.position, p.colour, SubSeq(ds, 1, n))
                       EXCEPT !.projectiles = RemoveAt(@, i)],
                    i - 1, SubSeq(ds, n + 1, Len(ds)))
             ELSE ExplodeFrom(s, i - 1, ds)

ExplodeVisibleProjectiles(s, ds) == ExplodeFrom(s, Len(s.projectiles), ds)

\* Trail draws: the outcome of Math.random() > 0.4 and the start index of
\* spawnParticle; the loop is explored with the emitting outcome.
TrailDraws == {[emit |-> TRUE, start |-> 0]}

\* The loop's pass over the projectiles, from the last to the first.
RECURSIVE UpdateProjectilesFrom(_, _, _)
UpdateProjectilesFrom(s, i, ts) ==
    IF i < 1 THEN s
    ELSE LET q  == s.projectiles[i]
             p  == [q EXCEPT !.position = @ + q.velocity * TimeScale,
                             !.velocity = (@ * 998) \div 1000]
             s1 == [s EXCEPT
                      !.projectiles[i] = p,
                      !.particles =
                          IF ts[i].emit
                          THEN SpawnParticle(@, ts[i].start,
                                   [pos |-> p.position, colour |-> p.colour,
                                    vel |-> -100, life |-> 800, decay |-> 30,
                                    size |-> 40])
                          ELSE @]
             s2 == IF p.position > 40000
                   THEN [s1 EXCEPT !.projectiles = RemoveAt(@, i)]
                   ELSE s1
         IN  UpdateProjectilesFrom(s2, i - 1, ts)

UpdateProjectiles(s, ts) == UpdateProjectilesFrom(s, Len(s.projectiles), ts)

\* Trail draws of a pass in which Math.random() > 0.4 fails for every
\* projectile.
NoTrailDraws == {[emit |-> FALSE, start |-> 0]}

\* createExplosion draws whose spawnParticle scans start at slot 0.
ScanFromFirst == {[start |-> 0, k |-> ExplosionSample]}

\* spawnProjectile: the two ends of the range of the launch velocity.
LaunchVels == {560, 840}

\* spawnProjectile called once.
OpSpawnProjectile ==
    /\ Len(projectiles) < MaxProjectiles
    /\ \E vel \in LaunchVels : SetScene(SpawnProjectile(Scene, vel))
    /\ UNCHANGED <<restVars, isGameActiveRef, appVars, visionVars, published>>

\* The loop's pass over the projectiles.
OpUpdateProjectiles ==
    /\ \E ts \in Draws(Len(projectiles), NoTrailDraws) :
         SetScene(UpdateProjectiles(Scene, ts))
    /\ UNCHANGED <<restVars, isGameActiveRef, appVars, visionVars, published>>

\* explodeVisibleProjectiles called once.
OpExplodeVisibleProjectiles ==
    /\ gameStats.exploded + VisibleCount(projectiles) <= MaxExploded
    /\ \E ds \in Draws(VisibleCount(projectiles)
                          * (ExplosionParticles \div BurstDiv),
                        ScanFromFirst) :
         SetScene(ExplodeVisibleProjectiles(Scene, ds))
    /\ UNCHANGED <<restVars, isGameActiveRef, appVars, visionVars, published>>

NextProjectiles ==
    \/ OpSpawnProjectile
    \/ OpUpdateProjectiles
    \/ OpExplodeVisibleProjectiles
    \/ OpUpdateParticles

SpecProjectiles == Init /\ [][NextProjectiles]_vars

\* Variant of the report test that calls the stats callback in every
\* iteration.
ReportsAlways(dirty) == TRUE

\* if (statsDirty.current): whether the iteration calls the stats callback.
Reports(dirty) == dirty

\* Variant of the triggers that looks at the level of the gesture only.
TriggersOnLevel(active, prev, curr) ==
    IF active
    THEN (IF curr = "Open_Palm" THEN {"explodeVisibleProjectiles"} ELSE {})
         \cup (IF curr = "Victory" THEN {"trySpawnEnvelopes"} ELSE {})
         \cup (IF prev = "Victory" /\ curr = "Open_Palm"
               THEN {"explodeEnvelopes"} ELSE {})
    ELSE {}

\* Variant of the triggers that does not test the active flag.
TriggersWhenInactive(active, prev, curr) ==
    IF curr # prev
    THEN (IF curr = "Open_Palm" /\ prev # "Open_Palm"
          THEN {"explodeVisibleProjectiles"} ELSE {})
         \cup (IF curr = "Victory" /\ prev # "Victory"
               THEN {"trySpawnEnvelopes"} ELSE {})
         \cup (IF prev = "Victory" /\ curr = "Open_Palm"
               THEN {"explodeEnvelopes"} ELSE {})
    ELSE {}

\* Gesture Triggers: the functions the iteration calls, for the active flag,
\* prev = stableGesture.current and curr = activeGesture.
Triggers(active, prev, curr) ==
    IF active /\ curr # prev
    THEN (IF curr = "Open_Palm" /\ prev # "Open_Palm"
          THEN {"explodeVisibleProjectiles"} ELSE {})
         \cup (IF curr = "Victory" /\ prev # "Victory"
               THEN {"trySpawnEnvelopes"} ELSE {})
         \cup (IF prev = "Victory" /\ curr = "Open_Palm"
               THEN {"explodeEnvelopes"} ELSE {})
    ELSE {}

\* Variant of the spawn test that does not look at the active flag.
SpawnsWhenInactive(active, time, next) == time > next

\* if (active && time > nextSpawnTime.current)
Spawns(active, time, next) == active /\ time > next

\* Variant of the order of the calls that converts the envelopes first.
CallOrderConvertFirst(calls) ==
    SelectSeq(<<"explodeEnvelopes", "trySpawnEnvelopes",
                "explodeVisibleProjectiles">>,
              LAMBDA c : c \in calls)

\* The order in which an iteration makes the calls of the gesture triggers:
\* that of its three if statements.
CallOrder(calls) ==
    SelectSeq(<<"explodeVisibleProjectiles", "trySpawnEnvelopes",
                "explodeEnvelopes">>,
              LAMBDA c : c \in calls)

\* One iteration of loop(time).
Tick ==
    \E dt \in FrameTimes :
      LET time   == lastTime + dt
          hand   == handDataRef
          active == isGameActiveRef
          d      == Debounce(pendingGesture, gestureFrameCount, RawGesture(hand))
          activeGesture == ActiveGesture(stableGesture, d)
          spawns == Spawns(active, time, nextSpawnTime)
          edge   == active /\ activeGesture # stableGesture
          prev   == stableGesture
          curr   == activeGesture
          calls  == Triggers(active, prev, curr)
          fireExplode == "explodeVisibleProjectiles" \in calls
          fireSpawn   == "trySpawnEnvelopes" \in calls
          fireConvert == "explodeEnvelopes" \in calls
          order  == CallOrder(calls)
          reports == Reports(statsDirty)
      IN
      /\ time <= MaxTime
      /\ \E vel \in (IF spawns THEN ProjectileVels ELSE {0}),
            baseDelay \in (IF spawns THEN BaseDelays ELSE {0}) :
          LET s0 == [Scene EXCEPT !.statsDirty = FALSE]
              s1 == IF spawns THEN SpawnProjectile(s0, vel) ELSE s0
              nVisible == IF fireExplode THEN VisibleCount(s1.projectiles) ELSE 0
          IN
          \E eds \in Draws(nVisible * (ExplosionParticles \div BurstDiv),
                           ExplosionDraws) :
            LET s2 == IF fireExplode THEN ExplodeVisibleProjectiles(s1, eds)
                      ELSE s1
            IN
            \E count \in (IF fireSpawn THEN 1 .. MaxBatch ELSE {1}) :
            \E goldenIndex \in (IF fireSpawn THEN -1 .. (count - 1) ELSE {-1}) :
            \E bds \in Draws(IF fireSpawn /\ Charges(s2.gameStats) >= 1
                                /\ Len(s2.envelopes) = 0
                             THEN BatchBurst(count, goldenIndex) ELSE 0,
                             EnvelopeDraws) :
            \E rolls \in Draws(IF fireConvert THEN Len(s2.envelopes) ELSE 0,
                               CoinRolls) :
            \E blink \in {10} :
              \* The calls are made one after the other, in their order;
              \* s2 above is the scene the draws are sized on (the envelopes
              \* come after the explosions, and a conversion is never called
              \* together with a spawn of envelopes).
              LET Call(s, c) ==
                      CASE c = "explodeVisibleProjectiles" ->
                             ExplodeVisibleProjectiles(s, eds)
                        [] c = "trySpawnEnvelopes" ->
                             TrySpawnEnvelopes(s, count, goldenIndex, bds)
                        [] c = "explodeEnvelopes" ->
                             ExplodeEnvelopes(s, rolls)
                  c1 == IF Len(order) >= 1 THEN Call(s1, order[1]) ELSE s1
                  c2 == IF Len(order) >= 2 THEN Call(c1, order[2]) ELSE c1
                  s4 == IF Len(order) >= 3 THEN Call(c2, order[3]) ELSE c2
                  s5 == [s4 EXCEPT !.particles = UpdateParticles(@, blink)]
              IN
              \E ts \in Draws(Len(s5.projectiles), TrailDraws) :
                LET s6 == UpdateProjectiles(s5, ts)
                    s7 == [s6 EXCEPT !.coins = UpdateCoins(@)]
                IN
                /\ s7.gameStats.exploded <= MaxExploded
                /\ s7.gameStats.coins <= MaxCoins
                /\ SetScene(s7)
                /\ stats' = IF reports THEN gameStats ELSE stats
                /\ fired' = calls \cup (IF reports THEN {"report"} ELSE {})
                /\ callOrder' = order
                /\ pendingGesture' = d.pending
                /\ gestureFrameCount' = d.count
                /\ stableGesture' = IF edge \/ ~active THEN activeGesture
                                    ELSE stableGesture
                /\ nextSpawnTime' = IF spawns
                                    THEN time + FinalDelay(baseDelay, hand)
                                    ELSE nextSpawnTime
                /\ lastTime' = time
                /\ rawRun' = IF lastTime > 0 /\ RawGesture(hand) = pendingGesture
                             THEN rawRun + 1 ELSE 1
                /\ published' = [published EXCEPT !.read = TRUE]
                /\ UNCHANGED <<handDataRef, isGameActiveRef, gameState,
                               timeLeft, restartCooldown, handData, timerOn,
                               cooldownOn, pendingEffects, cooldownTicks,
                               visionVars>>

\* Variant of the "Sync refs" effect that keeps a snapshot the loop has not
\* read yet instead of overwriting it.
SyncHandDataFirstWins(h) ==
    /\ handDataRef' = IF published.read THEN h ELSE handDataRef
    /\ UNCHANGED <<particles, projectiles, envelopes, coins, nextSpawnTime,
                   lastTime, gameStats, statsDirty, pendingGesture,
                   stableGesture, gestureFrameCount, isGameActiveRef,
                   rawRun, fired, callOrder, appVars, visionVars>>

\* The "Sync refs" effect of FireworkScene, run with h as its handData prop.
SyncHandData(h) ==
    /\ handDataRef' = h
    /\ UNCHANGED <<particles, projectiles, envelopes, coins, nextSpawnTime,
                   lastTime, gameStats, statsDirty, pendingGesture,
                   stableGesture, gestureFrameCount, isGameActiveRef,
                   rawRun, fired, callOrder, appVars, visionVars>>

\* The "Sync refs" effect of FireworkScene, run with a new handData prop.
OpSyncHandData ==
    \E h \in HandValues :
        /\ SyncHandData(h)
        /\ UNCHANGED published

NextLoop ==
    \/ Tick
    \/ OpSyncHandData
    \/ OpGameActiveEffect

SpecLoop == Init /\ [][NextLoop]_vars

\* The history of the writes to handDataRef: a write after a loop iteration
\* starts a new record, a write after another write is added to it, and the
\* record keeps its newest MaxPublished snapshots.
LastOf(seq, n) ==
    IF Len(seq) <= n THEN seq ELSE SubSeq(seq, Len(seq) - n + 1, Len(seq))

Logged(log, h) ==
    [snaps |-> IF log.read THEN <<h>>
               ELSE LastOf(Append(log.snaps, h), MaxPublished),
     read  |-> FALSE]

\* The snapshot handDataRef holds according to the history: the last one
\* written, or the initial value of the ref.
LastPublished ==
    IF published.snaps = <<>> THEN Null
    ELSE published.snaps[Len(published.snaps)]

\* The "Sync refs" effect run with snapshot h, its write recorded.
OpPublish(h) ==
    /\ SyncHandData(h)
    /\ published' = Logged(published, h)

\* The loop and the writers of the two refs it reads, over a few iterations.
NextRefs ==
    \/ Tick /\ lastTime' <= MaxRefTime
    \/ \E h \in HandValues : OpPublish(h)
    \/ OpGameActiveEffect

SpecRefs == Init /\ [][NextRefs]_vars

\* The hand snapshots of the two gestures of the conversion edge.
PalmOrVictory ==
    {[hand |-> TRUE, gesture |-> g, velocity |-> 0] :
       g \in {"Open_Palm", "Victory"}}

\* One session whose hand shows Victory or Open_Palm only.  The explosions
\* that earn its first charge are credited by createExplosion before the
\* loop is followed, so that the Victory edge finds a charge to spend and
\* the Open_Palm edge after it finds envelopes to convert.
NextOrder ==
    \/ Tick
    \/ \E h \in PalmOrVictory : SyncHandData(h) /\ UNCHANGED published
    \/ ~isGameActiveRef /\ OpGameActiveEffect
    \/ /\ isGameActiveRef
       /\ lastTime = 0
       /\ gameStats.exploded < ChargeCost
       /\ OpCreateExplosion

SpecOrder == Init /\ [][NextOrder]_vars

(***************************************************************************)
(* VisionService.detect.                                                   *)
(***************************************************************************)
\* Wrist positions (thousandths of the frame width) and the time (ms) since
\* the wrist position was last stored.
WristXs == {0, 100}
FrameGaps == {0, 2, 33}

Abs(n) == IF n >= 0 THEN n ELSE 0 - n
Min2(a, b) == IF a <= b THEN a ELSE b

\* The "Classify" chain of detect, from the four isFingerOpen results.
Classify(index, middle, ring, pinky) ==
    IF ~index /\ ~middle /\ ~ring /\ ~pinky THEN "Closed_Fist"
    ELSE IF index /\ middle /\ ~ring /\ ~pinky THEN "Victory"
    ELSE IF index /\ middle /\ ring /\ pinky THEN "Open_Palm"
    ELSE "None"

\* What the hand landmarker can find in a video frame: no hand, or a hand with
\* its wrist position, the open fingers and the time since the last stored
\* position.
Frames ==
    {[hand |-> FALSE, x |-> 0, dt |-> 0, index |-> FALSE, middle |-> FALSE,
      ring |-> FALSE, pinky |-> FALSE]}
    \cup {[hand |-> TRUE, x |-> x, dt |-> dt, index |-> i, middle |-> i,
           ring |-> r, pinky |-> r] :
             x \in WristXs, dt \in FrameGaps, i \in BOOLEAN, r \in BOOLEAN}

\* Variant of detect that keeps the stored wrist position when the hand is
\* lost.
DetectKeepsWrist(last, frame) ==
    IF frame.hand
    THEN LET dx == Abs(frame.x - last.x)
             velocity == IF last.seen /\ frame.dt > 0
                         THEN (dx * 10) \div frame.dt ELSE 0
         IN  [result |-> [hand |-> TRUE,
                          gesture |-> Classify(frame.index, frame.middle,
                                               frame.ring, frame.pinky),
                          velocity |-> Min2(velocity, 50)],
              last |-> [seen |-> TRUE, x |-> frame.x]]
    ELSE [result |-> Null, last |-> last]

\* detect(video, timestamp) once the landmarker is initialised: the HandData
\* it returns (velocity in tenths) and the new lastWristPos.  The speed is
\* sqrt(dx*dx + dy*dy) / dt * 1000 of a wrist that moves along x.
Detect(last, frame) ==
    IF frame.hand
    THEN LET dx == Abs(frame.x - last.x)
             velocity == IF last.seen /\ frame.dt > 0
                         THEN (dx * 10) \div frame.dt ELSE 0
         IN  [result |-> [hand |-> TRUE,
                          gesture |-> Classify(frame.index, frame.middle,
                                               frame.ring, frame.pinky),
                          velocity |-> Min2(velocity, 50)],
              last |-> [seen |-> TRUE, x |-> frame.x]]
    ELSE [result |-> Null, last |-> NoWrist]

\* visionService.detect called once.
OpDetect ==
    \E frame \in Frames :
        /\ detected' = Detect(lastWristPos, frame).result
        /\ lastWristPos' = Detect(lastWristPos, frame).last
        /\ UNCHANGED <<sceneVars, appVars, published>>

\* The "Sync refs" effect of FireworkScene, run with the snapshot detect
\* returned as the handData prop.
OpSyncDetected ==
    /\ handDataRef' = detected
    /\ UNCHANGED <<particles, projectiles, envelopes, coins, nextSpawnTime,
                   lastTime, gameStats, statsDirty, pendingGesture,
                   stableGesture, gestureFrameCount, isGameActiveRef,
                   rawRun, fired, callOrder, appVars, visionVars,
                   published>>

NextVision ==
    \/ OpDetect
    \/ OpSyncDetected
    \/ Tick

SpecVision == Init /\ [][NextVision]_vars

(***************************************************************************)
(* The session state machine of App.                                       *)
(***************************************************************************)
\* The effects of one commit: FireworkScene's two ("sync", "active") run
\* before App's three ("timer", "cooldown", "gesture").
EffectNames == {"sync", "active", "timer", "cooldown", "gesture"}

\* handData?.gesture, the first dependency of the Gesture Controls effect
GestureDep(h) == IF h.hand THEN h.gesture ELSE "undefined"

\* Variant of the replay guard that ignores the cooldown.
CanReplayAnytime(gs, cooldown) == gs = "RESULT"

\* The guard of the replay branch of the Gesture Controls effect.
CanReplay(gs, cooldown) == gs = "RESULT" /\ cooldown = 0

\* Whether the Gesture Controls effect calls startGame.
GestureStarts(h, gs, cooldown) ==
    /\ h.hand
    /\ h.gesture = "Victory"
    /\ (gs = "MENU" \/ CanReplay(gs, cooldown))

\* The effects a commit schedules, from the state before (a) and after (b):
\* onStatsUpdate is a new function in every render, so "sync" always runs.
Scheduled(a, b) ==
    IF a = b THEN {}
    ELSE {"sync"}
         \cup (IF a.gameState # b.gameState
               THEN {"active", "timer", "cooldown", "gesture"} ELSE {})
         \cup (IF a.restartCooldown # b.restartCooldown
                  \/ GestureDep(a.handData) # GestureDep(b.handData)
               THEN {"gesture"} ELSE {})

\* App's state as a record.
AppState ==
    [gameState |-> gameState, timeLeft |-> timeLeft,
     restartCooldown |-> restartCooldown, stats |-> stats,
     handData |-> handData]

\* A render and commit of the state b.
Commit(b) ==
    /\ gameState' = b.gameState
    /\ timeLeft' = b.timeLeft
    /\ restartCooldown' = b.restartCooldown
    /\ stats' = b.stats
    /\ handData' = b.handData
    /\ pendingEffects' = Scheduled(AppState, b)

\* Variant of startGame that leaves the UI copy of the stats alone.
StartGameKeepStats(a) ==
    [a EXCEPT !.timeLeft = CountdownStart, !.gameState = "PLAYING"]

\* startGame
StartGame(a) ==
    [a EXCEPT !.stats = ZeroStats, !.timeLeft = CountdownStart,
              !.gameState = "PLAYING"]

sceneRest ==
    <<particles, projectiles, envelopes, coins, nextSpawnTime, lastTime,
      statsDirty, pendingGesture, stableGesture, gestureFrameCount, rawRun,
      fired, callOrder>>

\* predictLoop: setHandData(result), result being what detect returned; the
\* wrist position detect keeps is not followed here, only whether it has one.
PredictLoop ==
    \E h \in HandValues :
        /\ pendingEffects = {}
        /\ Commit([AppState EXCEPT !.handData = h])
        /\ detected' = h
        /\ lastWristPos' = IF h.hand THEN [seen |-> TRUE, x |-> 0] ELSE NoWrist
        /\ UNCHANGED <<sceneRest, gameStats, handDataRef, isGameActiveRef,
                       timerOn, cooldownOn, cooldownTicks, published>>

\* Variant of the Timer callback that ends the session one second early.
TimerTickEarly ==
    /\ pendingEffects = {}
    /\ timerOn
    /\ Commit(IF timeLeft <= 2
              THEN [AppState EXCEPT !.timeLeft = 0, !.gameState = "RESULT"]
              ELSE [AppState EXCEPT !.timeLeft = @ - 1])
    /\ cooldownTicks' = IF timeLeft <= 2 THEN 0 ELSE cooldownTicks
    /\ UNCHANGED <<sceneRest, visionVars, published, gameStats, handDataRef,
                   isGameActiveRef,
                   timerOn, cooldownOn>>

\* Variant of the Timer callback that never ends the session.
TimerTickStalls ==
    /\ pendingEffects = {}
    /\ timerOn
    /\ Commit(IF timeLeft <= 1
              THEN AppState
              ELSE [AppState EXCEPT !.timeLeft = @ - 1])
    /\ UNCHANGED <<sceneRest, visionVars, published, gameStats, handDataRef,
                   isGameActiveRef,
                   timerOn, cooldownOn, cooldownTicks>>

\* The interval callback of the Timer effect.
TimerTick ==
    /\ pendingEffects = {}
    /\ timerOn
    /\ Commit(IF timeLeft <= 1
              THEN [AppState EXCEPT !.timeLeft = 0, !.gameState = "RESULT"]
              ELSE [AppState EXCEPT !.timeLeft = @ - 1])
    /\ cooldownTicks' = IF timeLeft <= 1 THEN 0 ELSE cooldownTicks
    /\ UNCHANGED <<sceneRest, visionVars, published, gameStats, handDataRef,
                   isGameActiveRef,
                   timerOn, cooldownOn>>

\* Variant of the cooldown callback that neither stops at 0 nor clears its
\* interval.
CooldownTickRunsOn ==
    /\ pendingEffects = {}
    /\ cooldownOn
    /\ Commit([AppState EXCEPT !.restartCooldown = @ - 1])
    /\ cooldownTicks' = cooldownTicks + 1
    /\ UNCHANGED <<sceneRest, visionVars, published, gameStats, handDataRef,
                   isGameActiveRef,
                   timerOn, cooldownOn>>

\* The interval callback of the Restart Cooldown effect.
CooldownTick ==
    /\ pendingEffects = {}
    /\ cooldownOn
    /\ Commit(IF restartCooldown <= 1
              THEN [AppState EXCEPT !.restartCooldown = 0]
              ELSE [AppState EXCEPT !.restartCooldown = @ - 1])
    /\ cooldownOn' = (restartCooldown > 1)
    /\ cooldownTicks' = cooldownTicks + 1
    /\ UNCHANGED <<sceneRest, visionVars, published, gameStats, handDataRef,
                   isGameActiveRef,
                   timerOn>>

\* onClick of the START GAME button, rendered in MENU.
ClickStart ==
    /\ pendingEffects = {}
    /\ gameState = "MENU"
    /\ Commit(StartGame(AppState))
    /\ UNCHANGED <<sceneRest, visionVars, published, gameStats, handDataRef,
                   isGameActiveRef,
                   timerOn, cooldownOn, cooldownTicks>>

\* onClick of the replay button, rendered in RESULT.
ClickReplay ==
    /\ pendingEffects = {}
    /\ gameState = "RESULT"
    /\ Commit(IF restartCooldown = 0 THEN StartGame(AppState) ELSE AppState)
    /\ UNCHANGED <<sceneRest, visionVars, published, gameStats, handDataRef,
                   isGameActiveRef,
                   timerOn, cooldownOn, cooldownTicks>>

\* The flush of the effects of the last commit, and the render of the state
\* updates they queue.
RunEffects ==
    LET E  == pendingEffects
        a1 == IF "cooldown" \in E /\ gameState = "RESULT"
              THEN [AppState EXCEPT !.restartCooldown = CooldownStart]
              ELSE AppState
        a2 == IF "gesture" \in E
                 /\ GestureStarts(handData, gameState, restartCooldown)
              THEN StartGame(a1)
              ELSE a1
    IN
    /\ E # {}
    /\ handDataRef' = IF "sync" \in E THEN handData ELSE handDataRef
    /\ isGameActiveRef' = IF "active" \in E THEN gameState = "PLAYING"
                          ELSE isGameActiveRef
    /\ gameStats' = IF "active" \in E /\ gameState = "PLAYING"
                    THEN ZeroStats ELSE gameStats
    /\ timerOn' = IF "timer" \in E THEN gameState = "PLAYING" ELSE timerOn
    /\ cooldownOn' = IF "cooldown" \in E THEN gameState = "RESULT"
                     ELSE cooldownOn
    /\ Commit(a2)
    /\ UNCHANGED <<sceneRest, visionVars, published, cooldownTicks>>

NextSession ==
    \/ PredictLoop
    \/ TimerTick
    \/ CooldownTick
    \/ ClickStart
    \/ ClickReplay
    \/ RunEffects

SpecSession == Init /\ [][NextSession]_vars

\* The two interval callbacks are run by the browser's timer queue however
\* many video frames arrive in between, and React flushes the effects of
\* every commit.
SpecSessionLive ==
    /\ SpecSession
    /\ SF_vars(TimerTick)
    /\ SF_vars(CooldownTick)
    /\ WF_vars(RunEffects)

(***************************************************************************)
(* The whole game: the session of App, and the loop of FireworkScene as    *)
(* the operations a loop iteration performs (its stats report, and an      *)
(* explosion dispatched by its gesture triggers, which run only while      *)
(* isGameActiveRef is set).  The operations may fall between a commit of   *)
(* App and the flush of that commit's effects, as animation frames do.     *)
(***************************************************************************)
\* createExplosion, dispatched by the loop's triggers: if (active && ...).
GameCreateExplosion ==
    /\ isGameActiveRef
    /\ gameStats.exploded < MaxSessionExploded
    /\ OpCreateExplosion

NextGame ==
    \/ PredictLoop
    \/ TimerTick
    \/ CooldownTick
    \/ ClickStart
    \/ ClickReplay
    \/ RunEffects
    \/ GameCreateExplosion
    \/ OpReportStats

SpecGame == Init /\ [][NextGame]_vars

(***************************************************************************)
(* Properties.                                                             *)
(***************************************************************************)
\* C1: the number of active slots never exceeds MAX_PARTICLES, and a
\* spawnParticle call made while every slot is active changes no field of any
\* slot.
C1_PoolCapacity ==
    /\ [](ActiveCount(particles) <= MAX_PARTICLES)
    /\ [][(Saturated(particles) /\ OpSpawnParticle)
            => particles' = particles]_vars

\* A full pool: every further spawnParticle call is one made at capacity.
C1_Witness == Saturated(particles) /\ ActiveCount(particles) = MAX_PARTICLES

\* C2: in every reachable state of the counters charges >= 0, that is,
\* consumed never exceeds exploded.
C2_ChargesNonNegative ==
    /\ Charges(gameStats) >= 0
    /\ gameStats.consumed <= gameStats.exploded

\* Every explosion has been spent.
C2_Witness ==
    /\ gameStats.consumed > 0
    /\ gameStats.consumed = gameStats.exploded
    /\ Charges(gameStats) = 0

\* C3 as the code has it: the stable gesture changes only in a loop iteration
\* that is at least the 7th in a row to read the same raw gesture, and it then
\* becomes that gesture; once 7 iterations in a row have read a gesture, it is
\* the stable one.
C3_SeventhTick ==
    /\ [](rawRun >= GestureThreshold + 2 => stableGesture = pendingGesture)
    /\ [][stableGesture' # stableGesture
            => (rawRun' >= GestureThreshold + 2
                /\ stableGesture' = pendingGesture')]_vars

\* The 7th iteration in a row that read a gesture has just made it stable.
C3_Witness ==
    /\ rawRun = 7
    /\ gestureFrameCount = 6
    /\ stableGesture = pendingGesture
    /\ stableGesture # "None"

\* C3 as stated: the 6th iteration in a row that reads a gesture makes it the
\* stable gesture.
C3_SixthTick ==
    [][(rawRun = 5 /\ rawRun' = 6) => stableGesture' = pendingGesture']_vars

\* C4: a loop iteration whose raw gesture differs from the one the previous
\* iteration read leaves the stable gesture unchanged, whether the game is
\* active or not; so a signal that changes in every iteration never moves it.
C4_AlternatingSignal ==
    [][(lastTime' # lastTime /\ rawRun' = 1)
         => stableGesture' = stableGesture]_vars

\* Several iterations in, the last one read a changed raw gesture that is not
\* the stable one.
C4_Witness ==
    /\ lastTime >= 7 * 16 * TimeScale
    /\ rawRun = 1
    /\ gestureFrameCount = 0
    /\ pendingGesture # stableGesture

\* C5: at most one batch (at most 4 envelopes) is alive, and trySpawnEnvelopes
\* called while an envelope is alive leaves the envelope collection unchanged.
C5_SingleBatch ==
    /\ [](Len(envelopes) <= MaxBatch)
    /\ [][(Len(envelopes) > 0 /\ OpTrySpawnEnvelopes)
            => envelopes' = envelopes]_vars

\* Two charges were spent and nothing was ever converted, yet one batch is
\* alive: the second call was made on a live batch.
C5_Witness ==
    /\ Len(envelopes) \in 1 .. MaxBatch
    /\ gameStats.consumed = 2 * ChargeCost
    /\ gameStats.coins = 0

\* C6: trySpawnEnvelopes called while an envelope is alive leaves exploded,
\* consumed and coins unchanged.
C6_NoChargeSpentOnLiveBatch ==
    [][(Len(envelopes) > 0 /\ OpTrySpawnEnvelopes)
         => gameStats' = gameStats]_vars

\* C7: trySpawnEnvelopes called with charges < 1 changes neither the counters
\* nor the envelopes, the particle pool or the dirty flag.
C7_NoChargeNoOp ==
    [][(Charges(gameStats) < 1 /\ OpTrySpawnEnvelopes)
         => UNCHANGED <<gameStats, envelopes, particles, statsDirty>>]_vars

\* Fewer than 5 unspent explosions, and a clean dirty flag to be kept.
C7_Witness ==
    /\ gameStats.exploded > gameStats.consumed
    /\ Charges(gameStats) < 1
    /\ ~statsDirty

\* The coins of the suffix new that lie at the horizontal position x.
CoinsAt(new, x) == Cardinality({i \in 1 .. Len(new) : new[i].x = x})

\* The sum over the envelopes es of the coins made for each, times weight.
RECURSIVE BatchTotal(_, _, _)
BatchTotal(es, new, golden) ==
    IF es = <<>> THEN 0
    ELSE CoinsAt(new, Head(es).x) * (IF Head(es).isGolden THEN golden ELSE 1)
         + BatchTotal(Tail(es), new, golden)

\* C8: a conversion makes, for each envelope, N coins with N in 3..10 (twice
\* a number in 3..10 for the golden one); the coin collection grows by the sum
\* of the N and the coins counter by the sum of N * value, value being 2 for
\* the golden envelope and 1 for the others.
C8_CoinBatches ==
    [][(Len(envelopes) > 0 /\ envelopes' = <<>>) =>
         LET new == SubSeq(coins', Len(coins) + 1, Len(coins'))
         IN  /\ SubSeq(coins', 1, Len(coins)) = coins
             /\ \A i \in 1 .. Len(envelopes) :
                  LET n == CoinsAt(new, envelopes[i].x)
                  IN  IF envelopes[i].isGolden
                      THEN \E k \in 3 .. 10 : n = 2 * k
                      ELSE n \in 3 .. 10
             /\ Len(new) = BatchTotal(envelopes, new, 1)
             /\ gameStats'.coins - gameStats.coins
                  = BatchTotal(envelopes, new, 2)]_vars

\* A converted batch that had a golden envelope.
C8_Witness ==
    /\ envelopes = <<>>
    /\ gameStats.coins > Len(coins)
    /\ \E i \in 1 .. Len(coins) : coins[i].colour = GOLD_COLOR /\ coins[i].velocity = 0

\* C9: from exploded = 12, consumed = 0 and no live envelope, one call of
\* trySpawnEnvelopes gives consumed = 5, charges = 1, exploded = 12 and one
\* batch of 1 to 4 envelopes.
C9_Scenario ==
    [][(/\ gameStats.exploded = 12
        /\ gameStats.consumed = 0
        /\ envelopes = <<>>
        /\ OpTrySpawnEnvelopes)
         => (/\ gameStats'.consumed = 5
             /\ Charges(gameStats') = 1
             /\ gameStats'.exploded = 12
             /\ Len(envelopes') \in 1 .. 4)]_vars

\* The state the scenario ends in.
C9_Witness ==
    /\ gameStats.exploded = 12
    /\ gameStats.consumed = 5
    /\ Len(envelopes) \in 1 .. 4

\* C10: from RESULT with restartCooldown > 0 no step leads to PLAYING: the
\* session stays in RESULT, whatever the gesture and whatever is clicked.
C10_CooldownBlocksReplay ==
    [][(gameState = "RESULT" /\ restartCooldown > 0)
         => gameState' = "RESULT"]_vars

\* RESULT, cooldown running, a Victory gesture shown and its effect run.
C10_Witness ==
    /\ gameState = "RESULT"
    /\ restartCooldown = 2
    /\ handData.hand
    /\ handData.gesture = "Victory"
    /\ pendingEffects = {}

\* C11: between an entry into RESULT and the next entry into PLAYING the
\* cooldown interval has fired at least three times.
C11_ThreeTicksBeforeReplay ==
    [][(gameState = "RESULT" /\ gameState' = "PLAYING")
         => cooldownTicks >= CooldownStart]_vars

\* C12: gameState changes only MENU -> PLAYING, PLAYING -> RESULT and
\* RESULT -> PLAYING, and PLAYING -> RESULT only in the step that takes
\* timeLeft from 1 to 0.
C12_SessionTransitions ==
    [][gameState' # gameState =>
         \/ gameState = "MENU" /\ gameState' = "PLAYING"
         \/ /\ gameState = "PLAYING" /\ gameState' = "RESULT"
            /\ timeLeft <= 1 /\ timeLeft' = 0
         \/ gameState = "RESULT" /\ gameState' = "PLAYING"]_vars

\* A second session, entered from RESULT after a full cooldown, is under way.
C12_Witness ==
    /\ gameState = "PLAYING"
    /\ cooldownTicks = CooldownStart
    /\ timeLeft < CountdownStart

\* C13: a step into PLAYING sets timeLeft to 30 and zeroes the UI copy of the
\* stats; the step that sets isGameActiveRef, without which no trigger is
\* dispatched, zeroes the counters of the scene; and between the commit of
\* PLAYING and that step the counters of the scene are not changed.
C13_EntryResets ==
    /\ [][(gameState # "PLAYING" /\ gameState' = "PLAYING")
            => (timeLeft' = 30 /\ stats' = ZeroStats)]_vars
    /\ [][(~isGameActiveRef /\ isGameActiveRef')
            => (gameState = "PLAYING" /\ gameStats' = ZeroStats)]_vars
    /\ [][(gameState = "PLAYING" /\ "active" \in pendingEffects)
            => (gameStats' = gameStats \/ gameStats' = ZeroStats)]_vars
    /\ [][gameStats'.exploded > gameStats.exploded => isGameActiveRef]_vars

\* A replay has been committed: the countdown and the UI copy are reset, the
\* counters of the scene still hold the last session's explosions, and the
\* effect that resets them and enables the triggers has not run yet.
C13_Witness ==
    /\ gameState = "PLAYING"
    /\ "active" \in pendingEffects
    /\ ~isGameActiveRef
    /\ gameStats.exploded > 0
    /\ stats = ZeroStats
    /\ timeLeft = 30

\* The functions of the gesture triggers among the calls of an iteration.
TriggerCalls(calls) == calls \ {"report"}

\* C14: a loop iteration that leaves the stable gesture unchanged calls none
\* of the trigger functions; one that changes it from prev to curr while the
\* game is active calls explodeVisibleProjectiles iff curr is Open_Palm,
\* trySpawnEnvelopes iff curr is Victory, and explodeEnvelopes iff prev is
\* Victory and curr is Open_Palm.
C14_EdgeTriggers ==
    [][lastTime' # lastTime =>
         /\ (stableGesture' = stableGesture => TriggerCalls(fired') = {})
         /\ ((isGameActiveRef /\ stableGesture' # stableGesture) =>
               /\ ("explodeVisibleProjectiles" \in fired')
                    = (stableGesture' = "Open_Palm")
               /\ ("trySpawnEnvelopes" \in fired')
                    = (stableGesture' = "Victory")
               /\ ("explodeEnvelopes" \in fired')
                    = (stableGesture = "Victory"
                       /\ stableGesture' = "Open_Palm"))]_vars

\* The iteration that took the stable gesture from Victory to Open_Palm in an
\* active game.
C14_Witness ==
    /\ isGameActiveRef
    /\ stableGesture = "Open_Palm"
    /\ "explodeEnvelopes" \in fired
    /\ "explodeVisibleProjectiles" \in fired
    /\ "trySpawnEnvelopes" \notin fired

\* C15: a loop iteration run while the game is not active still moves the
\* stable gesture to a settled pending gesture, calls none of the trigger
\* functions and changes neither the counters nor the envelopes; and an
\* iteration that reads the gesture that is already stable, as the first
\* active iteration does with a gesture that settled before, calls none
\* either.
C15_InactiveSuppressed ==
    /\ [][(lastTime' # lastTime /\ ~isGameActiveRef) =>
            /\ TriggerCalls(fired') = {}
            /\ gameStats' = gameStats
            /\ envelopes' = envelopes
            /\ coins' = UpdateCoins(coins)
            /\ stableGesture' = IF gestureFrameCount' > 5
                                THEN pendingGesture' ELSE stableGesture]_vars
    /\ [][(lastTime' # lastTime /\ RawGesture(handDataRef) = stableGesture) =>
            /\ TriggerCalls(fired') = {}
            /\ stableGesture' = stableGesture]_vars

\* Victory was read by all eight iterations so far and is stable; the eighth
\* was the first active one (it launched the first projectile) and called no
\* trigger function.
C15_Witness ==
    /\ lastTime = 8 * 16 * TimeScale
    /\ rawRun = 8
    /\ stableGesture = "Victory"
    /\ isGameActiveRef
    /\ Len(projectiles) = 1
    /\ nextSpawnTime = lastTime + 2000
    /\ fired = {}

\* C18: a loop iteration calls the stats callback iff the dirty flag was set
\* when it began, with the counters as they then were; otherwise the UI copy
\* is left alone; and the dirty flag is set at its end only if the iteration
\* changed a counter.
C18_StatsReport ==
    [][lastTime' # lastTime =>
         /\ ("report" \in fired') = statsDirty
         /\ ("report" \in fired' => stats' = gameStats)
         /\ ("report" \notin fired' => stats' = stats)
         /\ (statsDirty' => gameStats' # gameStats)]_vars

\* The last iteration reported counters that an explosion had changed.
C18_Witness ==
    /\ "report" \in fired
    /\ ~statsDirty
    /\ stats = gameStats
    /\ stats.exploded > 0

\* C19: the stable gesture changes in a loop iteration only if, after the
\* debounce, the pending gesture is the raw gesture of the iteration and
\* gestureFrameCount > 5; it then becomes the pending gesture.
C19_StableFollowsPending ==
    [][stableGesture' # stableGesture =>
         /\ lastTime' # lastTime
         /\ pendingGesture' = RawGesture(handDataRef)
         /\ gestureFrameCount' > 5
         /\ stableGesture' = pendingGesture']_vars

\* Open_Palm has settled while the game was not active.
C19_Witness ==
    /\ ~isGameActiveRef
    /\ stableGesture = "Open_Palm"
    /\ pendingGesture = "Open_Palm"
    /\ gestureFrameCount = 6

\* C16: the Gesture Controls effect moves the session from MENU or RESULT to
\* PLAYING only if Victory was already the gesture of the snapshot before the
\* one it reads, that is, not on a single raw Victory observation.
C16_NoStartOnSingleFrame ==
    [][(gameState \in {"MENU", "RESULT"} /\ gameState' = "PLAYING"
        /\ pendingEffects # {})
         => RawGesture(handDataRef) = "Victory"]_vars

\* C17: no step lowers exploded, consumed or coins, except the step that starts
\* a session, which sets all three to 0.
C17_CountersMonotone ==
    [][\/ /\ gameStats'.exploded >= gameStats.exploded
          /\ gameStats'.consumed >= gameStats.consumed
          /\ gameStats'.coins >= gameStats.coins
       \/ /\ ~isGameActiveRef
          /\ isGameActiveRef'
          /\ gameStats' = ZeroStats]_vars

\* A session has just started after one that earned coins: the counters are 0
\* while coins of the earlier session are still in flight.
C17_Witness ==
    /\ isGameActiveRef
    /\ gameStats = ZeroStats
    /\ Len(coins) > 0

\* The x positions of the members of a sequence.
XsOf(seq) == {seq[i].x : i \in 1 .. Len(seq)}

\* C20: explodeEnvelopes called with no live envelope changes nothing; called
\* with k >= 1 envelopes it leaves no envelope and adds exactly k coin batches,
\* one at each envelope: gold, of an even number 6..20 of coins worth 2 each,
\* for a golden envelope, and silver, of 3..10 coins worth 1 each, otherwise.
C20_AllOrNothing ==
    [][OpExplodeEnvelopes =>
         IF Len(envelopes) = 0
         THEN UNCHANGED <<particles, projectiles, envelopes, coins, gameStats,
                          statsDirty>>
         ELSE LET new    == SubSeq(coins', Len(coins) + 1, Len(coins'))
                  gold   == {i \in 1 .. Len(new) : new[i].colour = GOLD_COLOR}
                  silver == {i \in 1 .. Len(new) : new[i].colour = "SILVER_COLOR"}
              IN  /\ envelopes' = <<>>
                  /\ SubSeq(coins', 1, Len(coins)) = coins
                  /\ XsOf(new) = XsOf(envelopes)
                  /\ Cardinality(XsOf(new)) = Len(envelopes)
                  /\ \A e \in 1 .. Len(envelopes) :
                       LET batch == {i \in 1 .. Len(new) :
                                       new[i].x = envelopes[e].x}
                           n == Cardinality(batch)
                       IN  IF envelopes[e].isGolden
                           THEN /\ batch \subseteq gold
                                /\ n \in 6 .. 20 /\ n % 2 = 0
                           ELSE /\ batch \subseteq silver
                                /\ n \in 3 .. 10
                  /\ gameStats'.coins - gameStats.coins
                       = Cardinality(silver) + 2 * Cardinality(gold)]_vars

\* A converted batch of several envelopes, one golden: no envelope is left and
\* gold and silver coins lie at different places.
C20_Witness ==
    /\ envelopes = <<>>
    /\ \E i, j \in 1 .. Len(coins) :
         /\ coins[i].x # coins[j].x
         /\ coins[i].colour = GOLD_COLOR
         /\ coins[j].colour = "SILVER_COLOR"

\* C21: a loop iteration that launches a projectile while the stable gesture
\* is not Closed_Fist sets the next delay to the base delay, unreduced.
C21_SpeedGateStable ==
    [][(lastTime' # lastTime /\ nextSpawnTime' # nextSpawnTime
        /\ stableGesture' # "Closed_Fist")
         => (nextSpawnTime' - lastTime') \in BaseDelays]_vars

\* C22: a loop iteration at time t launches a projectile iff the game is
\* active and t > nextSpawnTime, and never more than one.  A launch sets
\* nextSpawnTime to t + delay with 333 <= delay <= 2000, and 666 <= delay
\* unless the snapshot shows Closed_Fist; without a launch nextSpawnTime stays
\* and no projectile is added.
C22_SpawnScheduler ==
    [][lastTime' # lastTime =>
         LET time   == lastTime'
             launch == isGameActiveRef /\ time > nextSpawnTime
             delay  == nextSpawnTime' - time
         IN  /\ Len(projectiles') <= Len(projectiles) + 1
             /\ launch =>
                  /\ delay \in 333 .. 2000
                  /\ (RawGesture(handDataRef) # "Closed_Fist"
                        => delay \in 666 .. 2000)
                  /\ ("explodeVisibleProjectiles" \notin fired' =>
                        /\ projectiles' # <<>>
                        /\ \E v \in ProjectileVels :
                             projectiles'[Len(projectiles')].position
                               = -10000 + v * TimeScale)
             /\ ~launch =>
                  /\ nextSpawnTime' = nextSpawnTime
                  /\ Len(projectiles') <= Len(projectiles)]_vars

\* A second projectile has just been launched, with the delay halved by a fast
\* fist.
C22_Witness ==
    /\ isGameActiveRef
    /\ Len(projectiles) >= 2
    /\ nextSpawnTime = lastTime + 333
    /\ projectiles[Len(projectiles)].position = -10000 + 700 * TimeScale

\* A projectile outside the volume explodeVisibleProjectiles detonates.
Invisible(p) == ~IsVisible(p.position)

\* C23: explodeVisibleProjectiles raises exploded by the number of projectiles
\* inside the visible volume, whatever the state of the particle pool, and
\* removes those projectiles and no other; no other operation changes
\* exploded.
C23_ExplodeVisible ==
    [][gameStats'.exploded # gameStats.exploded =>
         /\ OpExplodeVisibleProjectiles
         /\ gameStats'.exploded - gameStats.exploded
              = VisibleCount(projectiles)
         /\ projectiles' = SelectSeq(projectiles, Invisible)
         /\ Len(projectiles) - Len(projectiles')
              = gameStats'.exploded - gameStats.exploded]_vars

\* Two projectiles have been detonated at once while a third, outside the
\* visible volume, flies on; the pool of MAX_PARTICLES slots is full.
C23_Witness ==
    /\ gameStats.exploded = 2
    /\ statsDirty
    /\ Saturated(particles)
    /\ Len(projectiles) = 1
    /\ Invisible(projectiles[1])

\* C24: every inactive slot of the particle pool has size 0 and its vertical
\* position parked at -1000.
C24_InactiveParked ==
    \A i \in Slots :
        ~particles[i].active =>
            /\ particles[i].size = 0
            /\ particles[i].position = ParkY * 1000

\* A slot that held a particle has been deactivated by the loop while another
\* particle is still alive.
C24_Witness ==
    \E i, j \in Slots :
        /\ ~particles[i].active
        /\ particles[i].colour # "none"
        /\ particles[i].position = ParkY * 1000
        /\ particles[j].active

\* The slots whose contents a step changes.
ChangedSlots == {i \in Slots : particles'[i] # particles[i]}

\* C25: spawnParticle called on a pool with an inactive slot activates exactly
\* one slot, whatever the start index, and changes no other slot; the slot is
\* the first inactive one in the wrapping order that begins at the start index.
\* On a full pool it changes nothing.
C25_FirstInactiveSlot ==
    [][OpSpawnParticle =>
         IF Saturated(particles)
         THEN particles' = particles
         ELSE /\ \A start \in Slots, d \in ParticleArgs :
                   ActiveCount(SpawnParticle(particles, start, d))
                     = ActiveCount(particles) + 1
              /\ \E i \in Slots :
                   /\ ChangedSlots = {i}
                   /\ ~particles[i].active
                   /\ particles'[i].active
                   /\ \A start \in Slots, d \in ParticleArgs :
                        particles' = SpawnParticle(particles, start, d) =>
                          \E k \in 0 .. (MAX_PARTICLES - 1) :
                            /\ (start + k) % MAX_PARTICLES = i
                            /\ \A m \in 0 .. (k - 1) :
                                 particles[(start + m) % MAX_PARTICLES].active]_vars

\* The last slot holds a particle while the first has never been used.
C25_Witness ==
    /\ particles[MAX_PARTICLES - 1].active
    /\ particles[0] = InitParticle

\* C26: an active particle has life > 0, decay > 0 and is not below the cull
\* altitude; each pass of the loop lowers its life by its decay and deactivates
\* it in that pass when the life is used up; and a full pool gets a free slot
\* again.
C26_ParticlesExpire ==
    /\ [](\A i \in Slots :
            particles[i].active =>
                /\ particles[i].life > 0
                /\ particles[i].decay > 0
                /\ particles[i].position >= CullY * 1000)
    /\ [][OpUpdateParticles =>
            \A i \in Slots :
                particles[i].active =>
                    /\ particles'[i].life
                         = particles[i].life - particles[i].decay * TimeScale
                    /\ (particles'[i].life <= 0 => ~particles'[i].active)]_vars
    /\ (Saturated(particles) ~> ~Saturated(particles))

\* The pool was full and one particle has used up its life: its slot is free
\* again while every other slot is still active.
C26_Witness ==
    \E i \in Slots :
        /\ ~particles[i].active
        /\ particles[i].colour # "none"
        /\ particles[i].life <= 0
        /\ \A j \in Slots \ {i} : particles[j].active

\* C27: timeLeft stays in 0..30 and restartCooldown in 0..3; timeLeft changes
\* only by a decrement of 1 while the game is PLAYING or by the reset to 30 of
\* the step that enters PLAYING; restartCooldown changes only in RESULT, by a
\* decrement of 1 or by being set to 3.
C27_Tickers ==
    /\ [](timeLeft \in 0 .. CountdownStart)
    /\ [](restartCooldown \in 0 .. CooldownStart)
    /\ [][timeLeft' # timeLeft =>
            \/ /\ gameState = "PLAYING"
               /\ timeLeft >= 1
               /\ timeLeft' = timeLeft - 1
            \/ /\ gameState # "PLAYING"
               /\ gameState' = "PLAYING"
               /\ timeLeft' = CountdownStart]_vars
    /\ [][restartCooldown' # restartCooldown =>
            /\ gameState = "RESULT"
            /\ \/ restartCooldown >= 1 /\ restartCooldown' = restartCooldown - 1
               \/ restartCooldown' = CooldownStart]_vars

\* The countdown has run out and the cooldown has been decremented twice.
C27_Witness ==
    /\ gameState = "RESULT"
    /\ timeLeft = 0
    /\ restartCooldown = 1
    /\ cooldownTicks = 2
    /\ cooldownOn

\* C28: with timeLeft = k a PLAYING session comes to timeLeft = k - 1, and
\* from timeLeft = 1 to RESULT, so that RESULT follows the 30th tick after the
\* entry; in RESULT the cooldown comes to 0; and in RESULT with the cooldown at
\* 0 the replay button and a Victory seen by the Gesture Controls effect both
\* lead to PLAYING.
C28_SessionProgress ==
    /\ \A k \in 1 .. CountdownStart :
         (gameState = "PLAYING" /\ timeLeft = k)
           ~> (IF k = 1 THEN gameState = "RESULT"
               ELSE gameState = "PLAYING" /\ timeLeft = k - 1)
    /\ [][(gameState = "PLAYING" /\ gameState' = "RESULT") =>
             timeLeft = 1]_vars
    /\ (gameState = "RESULT"
          ~> (gameState = "RESULT" /\ restartCooldown = 0))
    /\ [][(gameState = "RESULT" /\ restartCooldown = 0 /\ ClickReplay) =>
             gameState' = "PLAYING"]_vars
    /\ [][(gameState = "RESULT" /\ restartCooldown = 0
           /\ "gesture" \in pendingEffects
           /\ handData.hand /\ handData.gesture = "Victory") =>
             gameState' = "PLAYING"]_vars

\* A session has run out, the cooldown has counted down to 0 and the replay
\* has been accepted.
C28_Witness ==
    /\ gameState = "PLAYING"
    /\ timeLeft = CountdownStart
    /\ restartCooldown = 0
    /\ cooldownTicks = CooldownStart

\* The live envelopes that are golden.
GoldenEnvelopes == {i \in 1 .. Len(envelopes) : envelopes[i].isGolden}

\* C29: the live envelopes are at most 4 and at most one of them is golden.
C29_OneGolden ==
    /\ Len(envelopes) <= MaxBatch
    /\ Cardinality(GoldenEnvelopes) <= 1

\* A batch of four envelopes, the third of them golden.
C29_Witness ==
    /\ Len(envelopes) = MaxBatch
    /\ GoldenEnvelopes = {3}

\* C30: a loop iteration that finds no hand snapshot debounces the raw gesture
\* None; detect returns a speed in 0..5 (0..50 tenths); a frame without a hand
\* returns null and forgets the wrist position, and the first snapshot after
\* it has speed 0.
C30_LostHand ==
    /\ [](detected.hand => detected.velocity \in 0 .. 50)
    /\ [](detected.hand <=> lastWristPos.seen)
    /\ [][(lastTime' # lastTime /\ ~handDataRef.hand) =>
            /\ pendingGesture' = "None"
            /\ gestureFrameCount' = IF pendingGesture = "None"
                                    THEN gestureFrameCount + 1 ELSE 0]_vars
    /\ [][(~detected.hand /\ detected'.hand) => detected'.velocity = 0]_vars

\* A hand that had moved fast was lost and has been found again somewhere
\* else; the loop has meanwhile read the missing snapshot.
C30_Witness ==
    /\ detected.hand
    /\ detected.velocity = 0
    /\ lastWristPos.x = 100
    /\ ~handDataRef.hand
    /\ pendingGesture = "None"
    /\ gestureFrameCount >= 1
    /\ stableGesture = "Closed_Fist"

\* C31: every loop iteration reads the snapshot written last to handDataRef
\* and the current value of isGameActiveRef: its debounce step is computed
\* from the last write alone, whatever was written before it since the
\* previous iteration; it leaves both refs as they are, so an iteration with
\* no write before it reads the same snapshot again; a projectile is
\* launched only with the flag set; and a write of any snapshot is possible
\* in every state, whether or not the loop has read the previous one.
C31_LastWriteWins ==
    /\ [][lastTime' # lastTime =>
            LET d == Debounce(pendingGesture, gestureFrameCount,
                              RawGesture(LastPublished))
            IN /\ pendingGesture' = d.pending
               /\ gestureFrameCount' = d.count
               /\ handDataRef' = handDataRef
               /\ isGameActiveRef' = isGameActiveRef
               /\ published'.snaps = published.snaps
               /\ (Len(projectiles') > Len(projectiles) => isGameActiveRef)
               /\ (~isGameActiveRef => TriggerCalls(fired') = {})]_vars
    /\ [](handDataRef = LastPublished)
    /\ [](\A h \in HandValues : ENABLED OpPublish(h))

\* Two snapshots with different gestures were written between two loop
\* iterations, and the iteration after them started counting the second
\* one, the first one being neither pending nor stable.
C31_Witness ==
    /\ published.read
    /\ Len(published.snaps) = 2
    /\ RawGesture(published.snaps[1]) # RawGesture(published.snaps[2])
    /\ RawGesture(published.snaps[1]) # "None"
    /\ pendingGesture = RawGesture(published.snaps[2])
    /\ stableGesture # RawGesture(published.snaps[1])
    /\ gestureFrameCount = 0
    /\ lastTime > 0

\* C32: the isGameActive effect changes the flag and the counters only: the
\* step that starts a session zeroes the counters and leaves the particles,
\* projectiles, envelopes and coins as the previous session left them, and
\* the step that ends one leaves the counters too.  So in a session that has
\* spent no charge the coins counter grows only by the conversion of
\* envelopes that were already there, which empties the envelope list.
C32_StartKeepsScene ==
    /\ [][(isGameActiveRef' # isGameActiveRef) =>
            /\ UNCHANGED <<particles, projectiles, envelopes, coins>>
            /\ gameStats' = IF isGameActiveRef' THEN ZeroStats ELSE gameStats]_vars
    /\ [][(/\ isGameActiveRef
            /\ gameStats.consumed = 0
            /\ gameStats'.coins > gameStats.coins) =>
            /\ Len(envelopes) > 0
            /\ Len(envelopes') = 0
            /\ Len(coins') > Len(coins)
            /\ gameStats'.consumed = 0]_vars

\* A session that has neither exploded a projectile nor spent a charge has
\* coins on its counter: it converted a batch left by the session before.
C32_Witness ==
    /\ isGameActiveRef
    /\ gameStats.exploded = 0
    /\ gameStats.consumed = 0
    /\ gameStats.coins > 0

\* C33: whenever statsDirty is clear, the stats state of App equals
\* gameState.current of the scene.
C33_StatsAgree == ~statsDirty => stats = gameStats

\* C34: the loop iteration that takes the stable gesture from Victory to
\* Open_Palm in an active game calls explodeVisibleProjectiles and then
\* explodeEnvelopes, and does not call trySpawnEnvelopes: every visible
\* projectile is counted as exploded before the first coin is counted, no
\* charge is consumed, and no envelope is left.
C34_ExplodeThenConvert ==
    [][(/\ lastTime' # lastTime
        /\ isGameActiveRef
        /\ stableGesture = "Victory"
        /\ stableGesture' = "Open_Palm") =>
         /\ callOrder' = <<"explodeVisibleProjectiles", "explodeEnvelopes">>
         /\ TriggerCalls(fired') = {"explodeVisibleProjectiles",
                                    "explodeEnvelopes"}
         /\ gameStats'.exploded >= gameStats.exploded
         /\ gameStats'.coins >= gameStats.coins
         /\ gameStats'.consumed = gameStats.consumed
         /\ (gameStats'.coins > gameStats.coins => Len(envelopes) > 0)
         /\ envelopes' = <<>>]_vars

\* The iteration of the Victory -> Open_Palm edge has made its two calls:
\* the charge spent at the Victory edge is on the counter, the envelopes it
\* bought are gone and their coins are counted and in flight.
C34_Witness ==
    /\ isGameActiveRef
    /\ stableGesture = "Open_Palm"
    /\ callOrder = <<"explodeVisibleProjectiles", "explodeEnvelopes">>
    /\ statsDirty
    /\ gameStats.consumed = ChargeCost
    /\ gameStats.coins > 0
    /\ Len(coins) > 0
    /\ Len(envelopes) = 0

\* C35: a loop iteration that is the 7th or a later one in a row to read the
\* raw gesture G ends with G as the stable gesture, whether the game is
\* active or not; and an iteration whose raw gesture differs from the
\* pending one makes it the pending gesture and sets gestureFrameCount to 0,
\* while one that reads the pending gesture again adds 1 to it.
C35_BoundedResponse ==
    [][lastTime' # lastTime =>
         LET raw == RawGesture(handDataRef)
         IN  /\ (rawRun' >= GestureThreshold + 2 => stableGesture' = raw)
             /\ pendingGesture' = raw
             /\ gestureFrameCount' = IF raw # pendingGesture THEN 0
                                     ELSE gestureFrameCount + 1]_vars

\* In an active game the iterations 8 to 14 read Closed_Fist after another
\* gesture: the 8th set gestureFrameCount to 0 and the 14th, the 7th of the
\* run, made Closed_Fist the stable gesture.
C35_Witness ==
    /\ isGameActiveRef
    /\ lastTime = 14 * 16 * TimeScale
    /\ rawRun = 7
    /\ gestureFrameCount = 6
    /\ pendingGesture = "Closed_Fist"
    /\ stableGesture = "Closed_Fist"
====
